---- MODULE Spec2Model ----
(***************************************************************************)
(* Cisco 8945 configuration generator: the field registry, the visibility  *)
(* rules, the key handlers of the main loop and of the two editors, and    *)
(* the XML writer of Cisco8945-generator.c.                                *)
(*                                                                         *)
(* C strings are sequences of one-character strings where the code looks   *)
(* at their characters (labels, typed text); the option catalogs, which    *)
(* the code only copies and prints, are TLA+ strings.  Array indices are   *)
(* the C indices (from 0).  The help texts, colours and scroll offsets     *)
(* only drive the drawing and are left out.                                *)
(***************************************************************************)
EXTENDS Integers, Sequences, FiniteSets, TLC

VARIABLES
  fields,        \* fields[i]: the Field struct of entry i, without its help text
  total_fields,  \* number of registry entries
  current,       \* index of the field the cursor is on
  pc,            \* where the program waits for a key
  sel,           \* highlighted option of the open dropdown (0 while none is open)
  msg,           \* status line printed by save_xml
  out,           \* what save_xml wrote through fp
  disk,          \* names of the files present in the working directory
  last,          \* outcome of the handler that ran last
  visRun         \* whether that handler called update_visibility

vars == <<fields, total_fields, current, pc, sel, msg, out, disk, last, visRun>>

\* ------------------------------------------------------------------------
\* Characters

\* ASCII: the digits from code 48, the capitals from 65, the small letters
\* from 97, and the punctuation that labels and typed text use.
Digits ==
  <<"0", "1", "2", "3", "4", "5", "6", "7", "8", "9">>

Capitals ==
  <<"A", "B", "C", "D", "E", "F", "G", "H", "I", "J", "K", "L", "M", "N", "O", "P", "Q", "R", "S", "T", "U", "V", "W", "X", "Y", "Z">>

Smalls ==
  <<"a", "b", "c", "d", "e", "f", "g", "h", "i", "j", "k", "l", "m", "n", "o", "p", "q", "r", "s", "t", "u", "v", "w", "x", "y", "z">>

Punctuation ==
  <<[c |-> " ", n |-> 32], [c |-> "#", n |-> 35], [c |-> "&", n |-> 38],
    [c |-> "-", n |-> 45], [c |-> ".", n |-> 46], [c |-> "/", n |-> 47],
    [c |-> ":", n |-> 58], [c |-> "=", n |-> 61]>>

ord(c) ==
  IF \E k \in 1..Len(Digits) : Digits[k] = c
    THEN 47 + (CHOOSE k \in 1..Len(Digits) : Digits[k] = c)
  ELSE IF \E k \in 1..Len(Capitals) : Capitals[k] = c
    THEN 64 + (CHOOSE k \in 1..Len(Capitals) : Capitals[k] = c)
  ELSE IF \E k \in 1..Len(Smalls) : Smalls[k] = c
    THEN 96 + (CHOOSE k \in 1..Len(Smalls) : Smalls[k] = c)
  ELSE (CHOOSE p \in {Punctuation[k] : k \in 1..Len(Punctuation)} : p.c = c).n

chr(n) ==
  IF n >= 48 /\ n <= 57 THEN Digits[n - 47]
  ELSE IF n >= 65 /\ n <= 90 THEN Capitals[n - 64]
  ELSE IF n >= 97 /\ n <= 122 THEN Smalls[n - 96]
  ELSE (CHOOSE p \in {Punctuation[k] : k \in 1..Len(Punctuation)} : p.n = n).c

isxdigit(c) ==
  \/ ord(c) >= ord("0") /\ ord(c) <= ord("9")
  \/ ord(c) >= ord("a") /\ ord(c) <= ord("f")
  \/ ord(c) >= ord("A") /\ ord(c) <= ord("F")

\* A variant of toupper that also turns capitals into small letters.
toupper_Swap(c) ==
  IF ord(c) >= ord("a") /\ ord(c) <= ord("z")
    THEN chr(ord(c) - (ord("a") - ord("A")))
  ELSE IF ord(c) >= ord("A") /\ ord(c) <= ord("Z")
    THEN chr(ord(c) + (ord("a") - ord("A")))
  ELSE c

toupper(c) ==
  IF ord(c) >= ord("a") /\ ord(c) <= ord("z")
    THEN chr(ord(c) - (ord("a") - ord("A")))
    ELSE c

\* strstr(h, n) # NULL: n occurs in h.
strstr(h, n) ==
  \E k \in 0..(Len(h) - Len(n)) : \A j \in 1..Len(n) : h[k + j] = n[j]

\* ------------------------------------------------------------------------
\* The option catalogs of init_fields

dis_en ==
  <<"Disabled", "Enabled">>

dis_en_val ==
  <<"0", "1">>

no_yes ==
  <<"No", "Yes">>

no_yes_val ==
  <<"false", "true">>

transports ==
  <<"UDP", "TCP", "TLS">>

trans_vals ==
  <<"1", "2", "3">>

codecs ==
  <<"G.711u (Standard US)", "G.711a (Standard EU)", "G.722 (HD Audio)", "G.729 (Compressed)">>

codec_vals ==
  <<"PCMU", "PCMA", "G722", "G729">>

date_fmts ==
  <<"M/D/Y", "D/M/Y", "Y/M/D">>

date_vals ==
  <<"M/D/Y", "D/M/Y", "Y/M/D">>

time_fmts ==
  <<"12 Hour", "24 Hour">>

time_vals ==
  <<"12", "24">>

bitrates ==
  <<"384k", "768k", "1.5M", "2.5M",
    "4M">>

bit_vals ==
  <<"384", "768", "1500", "2500",
    "4000">>

tz_names ==
  <<"Dateline Standard Time (GMT-12)",
    "Samoa Standard Time (GMT-11)",
    "Hawaiian Standard Time (GMT-10)",
    "Alaskan Standard Time (GMT-9)",
    "Pacific Standard/Daylight Time (GMT-8)",
    "Mountain Standard/Daylight Time (GMT-7)",
    "US Mountain Standard Time (GMT-7)",
    "Central Standard/Daylight Time (GMT-6)",
    "Mexico Standard/Daylight Time (GMT-6)",
    "Canada Central Standard Time (GMT-6)",
    "SA Pacific Standard Time (GMT-5)",
    "Eastern Standard/Daylight Time (GMT-5)",
    "US Eastern Standard Time (GMT-5)",
    "Atlantic Standard Time (GMT-4)",
    "SA Western Standard Time (GMT-4)",
    "Newfoundland Standard Time (GMT-3.5)",
    "E. South America Standard Time (GMT-3)",
    "SA Eastern Standard Time (GMT-3)",
    "Mid-Atlantic Standard Time (GMT-2)",
    "Azores Standard Time (GMT-1)",
    "GMT Standard/Daylight Time (GMT)",
    "Greenwich Standard Time (GMT)",
    "W. Europe Standard/Daylight Time (GMT+1)",
    "GTB Standard/Daylight Time (GMT+2)",
    "Egypt Standard/Daylight Time (GMT+2)",
    "E. Europe Standard/Daylight Time (GMT+2)",
    "Romance Standard/Daylight Time (GMT+2)",
    "Russian Standard Time (GMT+3)",
    "Near East Standard/Daylight Time (GMT+3)",
    "Iran Standard Time (GMT+3.5)",
    "Arabian Standard Time (GMT+4)",
    "Caucasus Standard/Daylight Time (GMT+4)",
    "Transitional Islamic State of Afghanistan Standard Time (GMT+4.5)",
    "Ekaterinburg Standard Time (GMT+5)",
    "West Asia Standard Time (GMT+5)",
    "India Standard Time (GMT+5.5)",
    "Nepal Standard Time (GMT+5.75)",
    "Central Asia Standard Time (GMT+6)",
    "Sri Lanka Standard Time (GMT+6)",
    "N. Central Asia Standard Time (GMT+6)",
    "Myanmar Standard Time (GMT+6.5)",
    "SE Asia Standard Time (GMT+7)",
    "North Asia Standard Time (GMT+7)",
    "China Standard/Daylight Time (GMT+8)",
    "Singapore Standard Time (GMT+8)",
    "Taipei Standard Time (GMT+8)",
    "W. Australia Standard Time (GMT+8)",
    "North Asia East Standard Time (GMT+8)",
    "Korea Standard Time (GMT+9)",
    "Tokyo Standard Time (GMT+9)",
    "Yakutsk Standard Time (GMT+9)",
    "Aus Central Standard Time (GMT+9.5)",
    "Cen. Australia Standard/Daylight Time (GMT+9.5)",
    "Aus Eastern Standard/Daylight Time (GMT+10)",
    "E. Australia Standard Time (GMT+10)",
    "Vladivostok Standard Time (GMT+10)",
    "Tasmania Standard/Daylight Time (GMT+10)",
    "Central Pacific Standard Time (GMT+11)",
    "New Zealand Standard/Daylight Time (GMT+12)",
    "Fiji Standard Time">>

tz_vals ==
  <<"Dateline Standard Time",
    "Samoa Standard Time",
    "Hawaiian Standard Time",
    "Alaskan Standard Time",
    "Pacific Standard/Daylight Time",
    "Mountain Standard/Daylight Time",
    "US Mountain Standard Time",
    "Central Standard/Daylight Time",
    "Mexico Standard/Daylight Time",
    "Canada Central Standard Time",
    "SA Pacific Standard Time",
    "Eastern Standard/Daylight Time",
    "US Eastern Standard Time",
    "Atlantic Standard Time",
    "SA Western Standard Time",
    "Newfoundland Standard Time",
    "E. South America Standard Time",
    "SA Eastern Standard Time",
    "Mid-Atlantic Standard Time",
    "Azores Standard Time",
    "GMT Standard/Daylight Time",
    "Greenwich Standard Time",
    "W. Europe Standard/Daylight Time",
    "GTB Standard/Daylight Time",
    "Egypt Standard/Daylight Time",
    "E. Europe Standard/Daylight Time",
    "Romance Standard/Daylight Time",
    "Russian Standard Time",
    "Near East Standard/Daylight Time",
    "Iran Standard Time",
    "Arabian Standard Time",
    "Caucasus Standard/Daylight Time",
    "Transitional Islamic State of Afghanistan Standard Time",
    "Ekaterinburg Standard Time",
    "West Asia Standard Time",
    "India Standard Time",
    "Nepal Standard Time",
    "Central Asia Standard Time",
    "Sri Lanka Standard Time",
    "N. Central Asia Standard Time",
    "Myanmar Standard Time",
    "SE Asia Standard Time",
    "North Asia Standard Time",
    "China Standard/Daylight Time",
    "Singapore Standard Time",
    "Taipei Standard Time",
    "W. Australia Standard Time",
    "North Asia East Standard Time",
    "Korea Standard Time",
    "Tokyo Standard Time",
    "Yakutsk Standard Time",
    "Aus Central Standard Time",
    "Cen. Australia Standard/Daylight Time",
    "Aus Eastern Standard/Daylight Time",
    "E. Australia Standard Time",
    "Vladivostok Standard Time",
    "Tasmania Standard/Daylight Time",
    "Central Pacific Standard Time",
    "New Zealand Standard/Daylight Time",
    "Fiji Standard Time">>

btn_types ==
  <<"Disabled", "Line", "SpeedDial", "BLF">>

btn_vals ==
  <<"0", "1", "2", "3">>

locales ==
  <<"US (English)", "UK (English)", "France (French)", "Germany (German)",
    "Spain (Spanish)">>

locale_vals ==
  <<"United_States", "United_Kingdom", "France", "Germany",
    "Spain">>

net_locales ==
  <<"United States", "United Kingdom", "France", "Germany",
    "Spain">>

net_locale_vals ==
  <<"United_States", "United_Kingdom", "France", "Germany",
    "Spain">>

bt_profiles ==
  <<"Handsfree Only", "Headset Only", "Both">>

bt_vals ==
  <<"Handsfree", "Headset", "Handsfree,Headset">>

dnd_alerts ==
  <<"None", "Flash Screen", "Beep", "Flash & Beep">>

dnd_vals ==
  <<"0", "5", "1", "2">>

pc_vlan_modes ==
  <<"Native / Untagged", "Tag with Voice VLAN", "Tag with Specific VLAN">>

pc_vlan_vals ==
  <<"0", "1", "2">>

\* ------------------------------------------------------------------------
\* The field registry: add_field, add_dropdown and the calls of init_fields

FT_MANDATORY == "FT_MANDATORY"
FT_OPTIONAL == "FT_OPTIONAL"
FT_HEADER == "FT_HEADER"

NULL == -1

\* fields[] is a zero-initialised global: opt_sel is 0 until add_dropdown sets it.
add_field(lbl, xml, t, hide) ==
  [label |-> lbl, xml |-> xml, type |-> t, opt_count |-> 0,
   options |-> <<>>, xml_values |-> <<>>,
   value |-> <<>>, opt_sel |-> 0, hidden |-> hide]

add_dropdown(lbl, xml, opts, vals, count, def, hide) ==
  [add_field(lbl, xml, FT_OPTIONAL, hide) EXCEPT
     !.opt_count = count,
     !.opt_sel = def,
     !.options = SubSeq(opts, 1, count),
     !.xml_values = SubSeq(vals, 1, count),
     !.value = opts[def + 1]]

KeyFunctionLabel == <<"K","e","y"," ","F","u","n","c","t","i","o","n">>

\* The block of button i: its header, its Key Function and the eight sub-fields.
ButtonBlock(i) ==
  <<
     add_field(<<"=","=","="," ","B","U","T","T","O","N"," ">> \o <<chr(ord("0") + i)>> \o <<" ","=","=","=">>,
               "", FT_HEADER, 0),
     add_dropdown(KeyFunctionLabel,
                  "lineType", btn_types, btn_vals, 4, IF i = 1 THEN 1 ELSE 0, 0),
     add_field(<<"E","x","t","e","n","s","i","o","n">>,
               "name", FT_OPTIONAL, 0),
     add_field(<<"L","a","b","e","l">>,
               "displayName", FT_OPTIONAL, 0),
     add_field(<<"A","u","t","h"," ","I","D">>,
               "authName", FT_OPTIONAL, 0),
     add_field(<<"S","I","P"," ","P","a","s","s","w","o","r","d">>,
               "authPassword", FT_OPTIONAL, 0),
     add_dropdown(<<"A","u","t","o"," ","A","n","s","w","e","r">>,
                  "autoAnswerEnabled", dis_en, dis_en_val, 2, 0, 1),
     add_field(<<"F","o","r","w","a","r","d"," ","A","l","l">>,
               "callForwardURI", FT_OPTIONAL, 1),
     add_field(<<"P","i","c","k","u","p"," ","G","r","o","u","p">>,
               "callPickupGroupURI", FT_OPTIONAL, 1),
     add_field(<<"V","o","i","c","e","m","a","i","l"," ","#">>,
               "voiceMailPilot", FT_OPTIONAL, 1)
  >>

\* Sections 1 to 9 of init_fields, in the order of the add_ calls.
FormSections ==
  <<
     add_field(<<"=","=","="," ","I","D","E","N","T","I","T","Y"," ","&"," ","N","E","T","W","O","R","K"," ","=","=","=">>,
               "", FT_HEADER, 0),
     add_field(<<"M","A","C"," ","A","d","d","r","e","s","s">>,
               "device", FT_MANDATORY, 0),
     add_field(<<"P","h","o","n","e"," ","L","a","b","e","l">>,
               "deviceLabel", FT_OPTIONAL, 0),
     add_field(<<"P","r","i","m","a","r","y"," ","P","B","X"," ","I","P">>,
               "processNodeName1", FT_MANDATORY, 0),
     add_field(<<"S","e","c","o","n","d","a","r","y"," ","P","B","X">>,
               "processNodeName2", FT_OPTIONAL, 0),
     add_field(<<"T","e","r","t","i","a","r","y"," ","P","B","X">>,
               "processNodeName3", FT_OPTIONAL, 0),
     add_dropdown(<<"T","r","a","n","s","p","o","r","t">>,
                  "transportLayerProtocol", transports, trans_vals, 3, 0, 0),
     add_field(<<"F","i","r","m","w","a","r","e"," ","L","o","a","d">>,
               "loadInformation", FT_OPTIONAL, 0),
     add_field(<<"S","I","P"," ","P","o","r","t">>,
               "voipControlPort", FT_OPTIONAL, 0),
     add_field(<<"=","=","="," ","E","T","H","E","R","N","E","T"," ","&"," ","V","L","A","N"," ","=","=","=">>,
               "", FT_HEADER, 0),
     add_field(<<"V","o","i","c","e"," ","V","L","A","N"," ","I","D">>,
               "adminVlanId", FT_OPTIONAL, 0),
     add_dropdown(<<"P","C"," ","P","o","r","t"," ","V","L","A","N"," ","M","o","d","e">>,
                  "pcVoiceVlanAccess", pc_vlan_modes, pc_vlan_vals, 3, 0, 0),
     add_field(<<"P","C"," ","V","L","A","N"," ","I","D">>,
               "pcPortVlanId", FT_OPTIONAL, 1),
     add_dropdown(<<"S","p","a","n"," ","t","o"," ","P","C">>,
                  "spanToPCPort", dis_en, dis_en_val, 2, 0, 0),
     add_dropdown(<<"G","r","a","t","u","i","t","o","u","s"," ","A","R","P">>,
                  "gratuitousARP", dis_en, dis_en_val, 2, 1, 0),
     add_field(<<"M","T","U"," ","S","i","z","e">>,
               "mtu", FT_OPTIONAL, 0),
     add_field(<<"=","=","="," ","S","E","C","U","R","I","T","Y"," ","&"," ","A","C","C","E","S","S"," ","=","=","=">>,
               "", FT_HEADER, 0),
     add_dropdown(<<"S","e","t","t","i","n","g","s"," ","L","o","c","k">>,
                  "settingsAccess", dis_en, dis_en_val, 2, 1, 0),
     add_dropdown(<<"W","e","b"," ","A","c","c","e","s","s">>,
                  "webAccess", dis_en, dis_en_val, 2, 1, 0),
     add_dropdown(<<"S","S","H"," ","A","c","c","e","s","s">>,
                  "sshAccess", dis_en, dis_en_val, 2, 0, 0),
     add_field(<<"S","S","H"," ","U","s","e","r","n","a","m","e">>,
               "sshUserId", FT_OPTIONAL, 0),
     add_field(<<"S","S","H"," ","P","a","s","s","w","o","r","d">>,
               "sshPassword", FT_OPTIONAL, 0),
     add_field(<<"A","d","m","i","n"," ","P","a","s","s","w","o","r","d">>,
               "adminPassword", FT_OPTIONAL, 0),
     add_dropdown(<<"P","C"," ","P","o","r","t">>,
                  "pcPort", dis_en, dis_en_val, 2, 1, 0),
     add_field(<<"=","=","="," ","H","A","R","D","W","A","R","E"," ","=","=","=">>,
               "", FT_HEADER, 0),
     add_dropdown(<<"B","l","u","e","t","o","o","t","h">>,
                  "bluetooth", dis_en, dis_en_val, 2, 1, 0),
     add_dropdown(<<"B","T"," ","P","r","o","f","i","l","e","s">>,
                  "bluetoothProfile", bt_profiles, bt_vals, 3, 2, 0),
     add_field(<<"=","=","="," ","A","U","D","I","O"," ","&"," ","V","I","D","E","O"," ","=","=","=">>,
               "", FT_HEADER, 0),
     add_dropdown(<<"P","r","e","f","e","r","r","e","d"," ","C","o","d","e","c">>,
                  "preferredCodec", codecs, codec_vals, 4, 0, 0),
     add_dropdown(<<"A","d","v","e","r","t","i","s","e"," ","G",".","7","2","2">>,
                  "advertiseG722Codec", dis_en, dis_en_val, 2, 1, 0),
     add_field(<<"A","u","d","i","o"," ","D","S","C","P">>,
               "dscpForAudio", FT_OPTIONAL, 0),
     add_field(<<"R","T","P"," ","M","i","n"," ","P","o","r","t">>,
               "startMediaPort", FT_OPTIONAL, 0),
     add_field(<<"R","T","P"," ","M","a","x"," ","P","o","r","t">>,
               "stopMediaPort", FT_OPTIONAL, 0),
     add_dropdown(<<"V","i","d","e","o"," ","E","n","a","b","l","e">>,
                  "videoCapability", no_yes, no_yes_val, 2, 1, 0),
     add_dropdown(<<"S","t","a","r","t"," ","V","i","d","e","o"," ","o","n"," ","A","n","s","w","e","r">>,
                  "autoTransmitVideo", no_yes, no_yes_val, 2, 0, 0),
     add_dropdown(<<"V","i","d","e","o"," ","Q","u","a","l","i","t","y">>,
                  "videoBitRate", bitrates, bit_vals, 5, 2, 0),
     add_field(<<"V","i","d","e","o"," ","D","S","C","P">>,
               "dscpForVideo", FT_OPTIONAL, 0),
     add_dropdown(<<"R","T","C","P"," ","S","t","a","t","s">>,
                  "rtcp", dis_en, dis_en_val, 2, 1, 0),
     add_field(<<"=","=","="," ","F","E","A","T","U","R","E","S"," ","=","=","=">>,
               "", FT_HEADER, 0),
     add_dropdown(<<"D","o"," ","N","o","t"," ","D","i","s","t","u","r","b">>,
                  "dndControl", dis_en, dis_en_val, 2, 1, 0),
     add_dropdown(<<"D","N","D"," ","A","l","e","r","t">>,
                  "dndCallAlert", dnd_alerts, dnd_vals, 4, 1, 0),
     add_field(<<"D","N","D"," ","T","i","m","e","r">>,
               "dndReminderTimer", FT_OPTIONAL, 0),
     add_dropdown(<<"N","A","T"," ","E","n","a","b","l","e","d">>,
                  "natEnabled", no_yes, no_yes_val, 2, 0, 0),
     add_field(<<"N","A","T"," ","A","d","d","r","e","s","s">>,
               "natAddress", FT_OPTIONAL, 1),
     add_field(<<"=","=","="," ","M","O","N","I","T","O","R","I","N","G"," ","=","=","=">>,
               "", FT_HEADER, 0),
     add_dropdown(<<"S","N","M","P"," ","E","n","a","b","l","e">>,
                  "snmpEnabled", dis_en, dis_en_val, 2, 0, 0),
     add_field(<<"C","o","m","m","u","n","i","t","y"," ","S","t","r","i","n","g">>,
               "snmpCommunity", FT_OPTIONAL, 1),
     add_field(<<"S","y","s","l","o","g"," ","S","e","r","v","e","r">>,
               "syslogAddr", FT_OPTIONAL, 0),
     add_field(<<"=","=","="," ","R","E","G","I","O","N"," ","&"," ","T","I","M","E"," ","=","=","=">>,
               "", FT_HEADER, 0),
     add_dropdown(<<"L","a","n","g","u","a","g","e">>,
                  "userLocale", locales, locale_vals, 5, 0, 0),
     add_dropdown(<<"D","i","a","l"," ","T","o","n","e","s">>,
                  "networkLocale", net_locales, net_locale_vals, 5, 0, 0),
     add_field(<<"D","i","a","l"," ","P","l","a","n">>,
               "dialTemplate", FT_OPTIONAL, 0),
     add_dropdown(<<"T","i","m","e"," ","Z","o","n","e">>,
                  "timeZone", tz_names, tz_vals, 58, 4, 0),
     add_field(<<"N","T","P"," ","S","e","r","v","e","r">>,
               "ntpServer", FT_OPTIONAL, 0),
     add_dropdown(<<"D","a","t","e"," ","F","o","r","m","a","t">>,
                  "dateTemplate", date_fmts, date_vals, 3, 0, 0),
     add_dropdown(<<"T","i","m","e"," ","F","o","r","m","a","t">>,
                  "timeFormat", time_fmts, time_vals, 2, 0, 0),
     add_field(<<"=","=","="," ","E","X","T","E","R","N","A","L"," ","U","R","L","S"," ","=","=","=">>,
               "", FT_HEADER, 0),
     add_field(<<"D","i","r","e","c","t","o","r","y"," ","U","R","L">>,
               "directoryURL", FT_OPTIONAL, 0),
     add_field(<<"S","e","r","v","i","c","e","s"," ","U","R","L">>,
               "servicesURL", FT_OPTIONAL, 0),
     add_field(<<"A","u","t","h"," ","U","R","L">>,
               "authenticationURL", FT_OPTIONAL, 0),
     add_field(<<"I","n","f","o"," ","U","R","L">>,
               "informationURL", FT_OPTIONAL, 0),
     add_field(<<"S","o","f","t","k","e","y"," ","T","e","m","p","l","a","t","e">>,
               "softKeyFile", FT_OPTIONAL, 0),
     add_field(<<"I","d","l","e","/","S","a","v","e","r"," ","U","R","L">>,
               "idleURL", FT_OPTIONAL, 0),
     add_field(<<"S","a","v","e","r"," ","T","i","m","e","o","u","t">>,
               "idleTimeout", FT_OPTIONAL, 0),
     add_field(<<"W","a","l","l","p","a","p","e","r"," ","U","R","L">>,
               "backgroundImage", FT_OPTIONAL, 0)
  >>

NumButtons == 4

RECURSIVE ButtonBlocks(_)
ButtonBlocks(i) ==
  IF i > NumButtons THEN <<>> ELSE ButtonBlock(i) \o ButtonBlocks(i + 1)

\* Every add_ call of init_fields in order: entry i of fields[] is Registry[i + 1].
Registry == FormSections \o ButtonBlocks(1)

\* ------------------------------------------------------------------------
\* Lookup helpers

\* The loop returns the first entry below total_fields whose tag is xml_tag,
\* NULL when there is none.
get_field(xml_tag) ==
  LET hits == {i \in 0..(total_fields - 1) : fields[i].xml = xml_tag} IN
    IF hits = {} THEN NULL ELSE CHOOSE i \in hits : \A j \in hits : i <= j

val(tag) ==
  LET f == get_field(tag) IN IF f # NULL THEN fields[f].value ELSE <<>>

opt_val(tag) ==
  LET f == get_field(tag) IN
    IF f # NULL THEN fields[f].xml_values[fields[f].opt_sel + 1] ELSE ""

\* ------------------------------------------------------------------------
\* sanitize_mac

MacLength == 12

\* The loop of sanitize_mac: the hex digits of src from position i on, uppercased.
RECURSIVE HexDigitsFrom(_, _)
HexDigitsFrom(src, i) ==
  IF i > Len(src) THEN <<>>
  ELSE IF isxdigit(src[i]) THEN <<toupper(src[i])>> \o HexDigitsFrom(src, i + 1)
  ELSE HexDigitsFrom(src, i + 1)

\* A variant of sanitize_mac without the cut at twelve characters.
sanitize_mac_NoCut(src) == HexDigitsFrom(src, 1)

\* clean[12] = '\0' cuts a longer result and leaves a shorter one as it is.
sanitize_mac(src) ==
  LET clean == HexDigitsFrom(src, 1) IN
    IF Len(clean) > MacLength THEN SubSeq(clean, 1, MacLength) ELSE clean

\* ------------------------------------------------------------------------
\* update_visibility

\* The C truth value of a comparison.
Flag(b) == IF b THEN 1 ELSE 0

\* A variant of rule 1 that treats every sub-field like Extension and Label.
LineKeyRule_DisabledOnly(f, i) ==
  IF strstr(f[i].label, KeyFunctionLabel)
    THEN [k \in DOMAIN f |->
            IF k >= i + 1 /\ k <= i + 8
              THEN [f[k] EXCEPT !.hidden = Flag(f[i].opt_sel = 0)]
              ELSE f[k]]
    ELSE f

\* A variant of rule 1 that empties Extension and Label when it hides them.
LineKeyRule_ClearsHidden(f, i) ==
  IF strstr(f[i].label, KeyFunctionLabel)
    THEN LET type == f[i].opt_sel IN
         [k \in DOMAIN f |->
            IF k = i + 1 \/ k = i + 2
              THEN [f[k] EXCEPT !.hidden = Flag(type = 0),
                                !.value = IF type = 0 THEN <<>> ELSE @]
            ELSE IF k >= i + 3 /\ k <= i + 8 THEN [f[k] EXCEPT !.hidden = Flag(type # 1)]
            ELSE f[k]]
    ELSE f

\* Rule 1 at entry i: the eight entries after a Key Function.
LineKeyRule(f, i) ==
  IF strstr(f[i].label, KeyFunctionLabel)
    THEN LET type == f[i].opt_sel IN
         [k \in DOMAIN f |->
            IF k = i + 1 \/ k = i + 2 THEN [f[k] EXCEPT !.hidden = Flag(type = 0)]
            ELSE IF k >= i + 3 /\ k <= i + 8 THEN [f[k] EXCEPT !.hidden = Flag(type # 1)]
            ELSE f[k]]
    ELSE f

\* Rules 2 and 3 at entry i: hidden while the entry before it is at option 0.
SnmpRule(f, i) ==
  IF f[i].xml = "snmpCommunity"
    THEN [f EXCEPT ![i].hidden = Flag(f[i - 1].opt_sel = 0)]
    ELSE f

NatRule(f, i) ==
  IF f[i].xml = "natAddress"
    THEN [f EXCEPT ![i].hidden = Flag(f[i - 1].opt_sel = 0)]
    ELSE f

\* A variant of rule 4 that shows the entry for every option but the first.
PcVlanRule_AnyTag(f, i) ==
  IF f[i].xml = "pcPortVlanId"
    THEN [f EXCEPT ![i].hidden = Flag(f[i - 1].opt_sel = 0)]
    ELSE f

\* Rule 4 at entry i: hidden unless the entry before it is at option 2.
PcVlanRule(f, i) ==
  IF f[i].xml = "pcPortVlanId"
    THEN [f EXCEPT ![i].hidden = Flag(f[i - 1].opt_sel # 2)]
    ELSE f

\* One pass of the loop body.
VisibilityStep(f, i) == PcVlanRule(NatRule(SnmpRule(LineKeyRule(f, i), i), i), i)

\* for (i = lo; i < hi; i++): the passes lo .. hi - 1 in ascending order, the
\* first half of the range and then the second.  Comparing f with the empty
\* array makes the evaluator finish the earlier passes before it starts the
\* later ones; fields[] is never empty.
RECURSIVE VisibilityLoop(_, _, _)
VisibilityLoop(f, lo, hi) ==
  IF hi <= lo \/ f = <<>> THEN f
  ELSE IF hi = lo + 1 THEN VisibilityStep(f, lo)
  ELSE LET mid == (lo + hi) \div 2 IN
         VisibilityLoop(VisibilityLoop(f, lo, mid), mid, hi)

update_visibility(f, n) == VisibilityLoop(f, 0, n)

\* ------------------------------------------------------------------------
\* init_fields

\* fields[] after the add_ calls and the closing update_visibility.
init_fields ==
  update_visibility([i \in 0..(Len(Registry) - 1) |-> Registry[i + 1]], Len(Registry))

\* ------------------------------------------------------------------------
\* save_xml: the document

\* The document is the sequence of its tags in the order the fprintf calls
\* write them: an element with text, or the opening or closing tag of a
\* container (attr is its priority or button attribute, NULL without one).
Elem(tag, txt) == [kind |-> "elem", tag |-> tag, txt |-> txt, attr |-> NULL]
Open(tag, attr) == [kind |-> "open", tag |-> tag, txt |-> "", attr |-> attr]
Close(tag) == [kind |-> "close", tag |-> tag, txt |-> "", attr |-> NULL]

\* s[0] is not the terminator.
NonEmpty(s) == Len(s) > 0

\* An element written only when its text is not empty.
ElemIf(tag, txt) == IF NonEmpty(txt) THEN <<Elem(tag, txt)>> ELSE <<>>

DefaultSipPort == <<"5","0","6","0">>

ControlPort ==
  LET port == val("voipControlPort") IN IF ~NonEmpty(port) THEN DefaultSipPort ELSE port

Member(priority, node) ==
  << Open("member", priority), Open("callManager", NULL),
     Open("ports", NULL), Elem("ethernetPhonePort", ControlPort), Close("ports"),
     Elem("processNodeName", node),
     Close("callManager"), Close("member") >>

\* A variant of the group that numbers the members it writes 0, 1, 2.
CallManagerGroup_Renumbered ==
  LET second == NonEmpty(val("processNodeName2")) IN
  << Open("callManagerGroup", NULL), Open("members", NULL) >>
  \o Member(0, val("processNodeName1"))
  \o (IF second THEN Member(1, val("processNodeName2")) ELSE <<>>)
  \o (IF NonEmpty(val("processNodeName3"))
        THEN Member(IF second THEN 2 ELSE 1, val("processNodeName3")) ELSE <<>>)
  \o << Close("members"), Close("callManagerGroup") >>

CallManagerGroup ==
  << Open("callManagerGroup", NULL), Open("members", NULL) >>
  \o Member(0, val("processNodeName1"))
  \o (IF NonEmpty(val("processNodeName2")) THEN Member(1, val("processNodeName2")) ELSE <<>>)
  \o (IF NonEmpty(val("processNodeName3")) THEN Member(2, val("processNodeName3")) ELSE <<>>)
  \o << Close("members"), Close("callManagerGroup") >>

DateTimeSetting ==
  << Open("dateTimeSetting", NULL) >>
  \o ElemIf("ntpServerAddr", val("ntpServerAddr"))
  \o << Elem("timeZone", opt_val("timeZone")) >>
  \o ElemIf("dateTemplate", opt_val("dateTemplate"))
  \o ElemIf("timeFormat", opt_val("timeFormat"))
  \o << Close("dateTimeSetting") >>

\* A variant of the SIP stack block that goes by the address, not the dropdown.
SipStack_ByAddress ==
  << Open("sipStack", NULL),
     Elem("transportLayerProtocol", opt_val("transportLayerProtocol")) >>
  \o (IF NonEmpty(val("natAddress"))
        THEN << Elem("natEnabled", "true"), Elem("natAddress", val("natAddress")) >>
        ELSE <<>>)
  \o << Close("sipStack") >>

SipStack ==
  LET nat == get_field("natEnabled") IN
  << Open("sipStack", NULL),
     Elem("transportLayerProtocol", opt_val("transportLayerProtocol")) >>
  \o (IF nat # NULL /\ fields[nat].opt_sel = 1
        THEN << Elem("natEnabled", "true"), Elem("natAddress", val("natAddress")) >>
        ELSE <<>>)
  \o << Close("sipStack") >>

Locales ==
  << Open("userLocale", NULL),
     Elem("name", opt_val("userLocale")), Elem("langCode", opt_val("userLocale")),
     Close("userLocale"),
     Elem("networkLocale", opt_val("networkLocale")) >>

\* A variant of the Ethernet block that leaves a hidden PC VLAN ID out.
EthernetConfig_VisibleOnly ==
  LET pvlan == get_field("pcPortVlanId") IN
  << Open("ethernetConfig", NULL) >>
  \o ElemIf("adminVlanId", val("adminVlanId"))
  \o (IF pvlan # NULL /\ fields[pvlan].hidden = 0
        THEN ElemIf("pcPortVlanId", val("pcPortVlanId")) ELSE <<>>)
  \o << Close("ethernetConfig") >>

EthernetConfig ==
  << Open("ethernetConfig", NULL) >>
  \o ElemIf("adminVlanId", val("adminVlanId"))
  \o ElemIf("pcPortVlanId", val("pcPortVlanId"))
  \o << Close("ethernetConfig") >>

\* The line element of the Key Function at entry i (its opt_sel is above 0).
LineElement(i) ==
  LET b == ord(fields[i].label[2]) - ord("0") IN
  << Open("line", b),
     Elem("featureID", IF fields[i].opt_sel = 1 THEN "9" ELSE "21"),
     Elem("name", fields[i + 1].value),
     Elem("displayName", fields[i + 2].value) >>
  \o (IF fields[i].opt_sel = 1
        THEN << Elem("authName", fields[i + 3].value),
                Elem("authPassword", fields[i + 4].value) >>
             \o (IF fields[i + 5].opt_sel = 1
                   THEN << Elem("autoAnswerEnabled", "2"), Elem("autoAnswerTimer", "1") >>
                   ELSE <<>>)
             \o ElemIf("callForwardURI", fields[i + 6].value)
             \o ElemIf("callPickupGroupURI", fields[i + 7].value)
             \o ElemIf("voiceMailPilot", val("voiceMailPilot"))
        ELSE <<>>)
  \o << Close("line") >>

\* A variant of the loop that visits the entries in descending order.
RECURSIVE SipLinesLoop_Descending(_, _)
SipLinesLoop_Descending(lo, hi) ==
  IF hi <= lo THEN <<>>
  ELSE IF hi = lo + 1
    THEN (IF strstr(fields[lo].label, KeyFunctionLabel) /\ fields[lo].opt_sel > 0
            THEN LineElement(lo) ELSE <<>>)
  ELSE LET mid == (lo + hi) \div 2 IN
         SipLinesLoop_Descending(mid, hi) \o SipLinesLoop_Descending(lo, mid)

\* for (i = lo; i < hi; i++): what the entries lo .. hi - 1 write, in ascending
\* order, the first half of the range and then the second.
RECURSIVE SipLinesLoop(_, _)
SipLinesLoop(lo, hi) ==
  IF hi <= lo THEN <<>>
  ELSE IF hi = lo + 1
    THEN (IF strstr(fields[lo].label, KeyFunctionLabel) /\ fields[lo].opt_sel > 0
            THEN LineElement(lo) ELSE <<>>)
  ELSE LET mid == (lo + hi) \div 2 IN SipLinesLoop(lo, mid) \o SipLinesLoop(mid, hi)

SipLines ==
  << Open("sipLines", NULL) >> \o SipLinesLoop(0, total_fields) \o << Close("sipLines") >>

\* A variant of the vendor block that writes each RTP port on its own.
VendorConfig_EachPortAlone ==
  LET snmp == get_field("snmpEnabled") IN
  << Open("vendorConfig", NULL),
     Elem("settingsAccess", opt_val("settingsAccess")),
     Elem("webAccess", opt_val("webAccess")),
     Elem("sshAccess", opt_val("sshAccess")) >>
  \o ElemIf("sshUserId", val("sshUserId"))
  \o ElemIf("sshPassword", val("sshPassword"))
  \o ElemIf("adminPassword", val("adminPassword"))
  \o << Elem("pcPort", opt_val("pcPort")),
        Elem("pcVoiceVlanAccess", opt_val("pcVoiceVlanAccess")),
        Elem("spanToPCPort", opt_val("spanToPCPort")),
        Elem("gratuitousARP", opt_val("gratuitousARP")),
        Elem("bluetooth", opt_val("bluetooth")),
        Elem("bluetoothProfile", opt_val("bluetoothProfile")),
        Elem("preferredCodec", opt_val("preferredCodec")),
        Elem("advertiseG722Codec", opt_val("advertiseG722Codec")) >>
  \o ElemIf("dscpForAudio", val("dscpForAudio"))
  \o ElemIf("startMediaPort", val("startMediaPort"))
  \o ElemIf("stopMediaPort", val("stopMediaPort"))
  \o << Elem("videoCapability", opt_val("videoCapability")),
        Elem("autoTransmitVideo", opt_val("autoTransmitVideo")),
        Elem("videoBitRate", opt_val("videoBitRate")) >>
  \o ElemIf("dscpForVideo", val("dscpForVideo"))
  \o << Elem("rtcp", opt_val("rtcp")),
        Elem("dndControl", opt_val("dndControl")),
        Elem("dndCallAlert", opt_val("dndCallAlert")) >>
  \o ElemIf("dndReminderTimer", val("dndReminderTimer"))
  \o (IF snmp # NULL /\ fields[snmp].opt_sel = 1
        THEN << Elem("snmpEnable", "1"), Elem("snmpCommunity", val("snmpCommunity")) >>
        ELSE <<>>)
  \o ElemIf("syslogAddr", val("syslogAddr"))
  \o ElemIf("directoryURL", val("directoryURL"))
  \o ElemIf("servicesURL", val("servicesURL"))
  \o ElemIf("authenticationURL", val("authenticationURL"))
  \o ElemIf("informationURL", val("informationURL"))
  \o ElemIf("dialTemplate", val("dialTemplate"))
  \o ElemIf("softKeyFile", val("softKeyFile"))
  \o ElemIf("idleURL", val("idleURL"))
  \o ElemIf("idleTimeout", val("idleTimeout"))
  \o ElemIf("backgroundImage", val("backgroundImage"))
  \o << Close("vendorConfig") >>

VendorConfig ==
  LET snmp == get_field("snmpEnabled") IN
  << Open("vendorConfig", NULL),
     Elem("settingsAccess", opt_val("settingsAccess")),
     Elem("webAccess", opt_val("webAccess")),
     Elem("sshAccess", opt_val("sshAccess")) >>
  \o ElemIf("sshUserId", val("sshUserId"))
  \o ElemIf("sshPassword", val("sshPassword"))
  \o ElemIf("adminPassword", val("adminPassword"))
  \o << Elem("pcPort", opt_val("pcPort")),
        Elem("pcVoiceVlanAccess", opt_val("pcVoiceVlanAccess")),
        Elem("spanToPCPort", opt_val("spanToPCPort")),
        Elem("gratuitousARP", opt_val("gratuitousARP")),
        Elem("bluetooth", opt_val("bluetooth")),
        Elem("bluetoothProfile", opt_val("bluetoothProfile")),
        Elem("preferredCodec", opt_val("preferredCodec")),
        Elem("advertiseG722Codec", opt_val("advertiseG722Codec")) >>
  \o ElemIf("dscpForAudio", val("dscpForAudio"))
  \o (IF NonEmpty(val("startMediaPort"))
        THEN << Elem("startMediaPort", val("startMediaPort")),
                Elem("stopMediaPort", val("stopMediaPort")) >>
        ELSE <<>>)
  \o << Elem("videoCapability", opt_val("videoCapability")),
        Elem("autoTransmitVideo", opt_val("autoTransmitVideo")),
        Elem("videoBitRate", opt_val("videoBitRate")) >>
  \o ElemIf("dscpForVideo", val("dscpForVideo"))
  \o << Elem("rtcp", opt_val("rtcp")),
        Elem("dndControl", opt_val("dndControl")),
        Elem("dndCallAlert", opt_val("dndCallAlert")) >>
  \o ElemIf("dndReminderTimer", val("dndReminderTimer"))
  \o (IF snmp # NULL /\ fields[snmp].opt_sel = 1
        THEN << Elem("snmpEnable", "1"), Elem("snmpCommunity", val("snmpCommunity")) >>
        ELSE <<>>)
  \o ElemIf("syslogAddr", val("syslogAddr"))
  \o ElemIf("directoryURL", val("directoryURL"))
  \o ElemIf("servicesURL", val("servicesURL"))
  \o ElemIf("authenticationURL", val("authenticationURL"))
  \o ElemIf("informationURL", val("informationURL"))
  \o ElemIf("dialTemplate", val("dialTemplate"))
  \o ElemIf("softKeyFile", val("softKeyFile"))
  \o ElemIf("idleURL", val("idleURL"))
  \o ElemIf("idleTimeout", val("idleTimeout"))
  \o ElemIf("backgroundImage", val("backgroundImage"))
  \o << Close("vendorConfig") >>

\* Everything save_xml writes between fopen and fclose.
Document ==
  << Open("device", NULL), Elem("deviceProtocol", "SIP") >>
  \o ElemIf("deviceLabel", val("deviceLabel"))
  \o ElemIf("loadInformation", val("loadInformation"))
  \o CallManagerGroup
  \o DateTimeSetting
  \o SipStack
  \o Locales
  \o EthernetConfig
  \o SipLines
  \o VendorConfig
  \o ElemIf("mtu", val("mtu"))
  \o << Close("device") >>

\* sprintf(fn, "SEP%s.cnf.xml", mac)
FileName(mac) == <<"S","E","P">> \o mac \o <<".","c","n","f",".","x","m","l">>

\* The status line: the format string printed and the file name it names.
NoMessage == [text |-> "", file |-> <<>>]
MacErrorMessage == [text |-> "ERR: MAC MUST BE 12 CHARS!", file |-> <<>>]
SuccessMessage(fn) == [text |-> "SUCCESS: %s SAVED.", file |-> fn]

\* ------------------------------------------------------------------------
\* What the operator types

MaxText == 2

TextChars == {"7"}

\* Lines typed into a text field other than the MAC address.
TextLines == UNION {[1..n -> TextChars] : n \in 0..MaxText}

\* Lines typed into the MAC address field: nothing, too few digits, a full
\* address with separators and mixed case, more digits than an address has.
MacLines ==
  { <<>>,
    <<"0","0",":","0","7",":","a","1">>,
    <<"0","0",":","0","7",":","a","1","-","B","2",".","c","3","d","4">>,
    <<"0","0","0","7","a","1","b","2","c","3","d","4","e","5">> }

MacLabel == <<"M","A","C">>

MaxPrefix == 3

\* A digit, a hex letter of each case, the letter after f, a separator.
MacChars == {"0", "a", "F", "g", ":"}

\* Eleven more hex digits, so that a line reaches and passes twelve.
MacPadding == <<"1","b","2","C","3","d","4","E","5","f","6">>

\* Lines typed into the MAC address field when only sanitize_mac is studied:
\* every start of up to MaxPrefix characters, alone or followed by the padding.
MacInputs ==
  MacLines \cup
  {p \o q : p \in UNION {[1..n -> MacChars] : n \in 0..MaxPrefix},
            q \in {<<>>, MacPadding}}

Lines(i) == IF strstr(fields[i].label, MacLabel) THEN MacLines ELSE TextLines

\* The fields the operator opens with Enter in the sessions explored.
EditedTags == {"device", "processNodeName1", "ntpServer", "snmpEnabled"}

EditedTriggerTags == {"pcVoiceVlanAccess", "natEnabled", "snmpEnabled"}

EditedButtonTags == {"lineType"}

EditedPickerTags == {"timeZone"}

EditedNatTags == {"device", "natEnabled", "natAddress"}

EditedMacTags == {"device"}

EditedRtpTags == {"device", "startMediaPort", "stopMediaPort"}

EditedPcVlanTags == {"device", "pcVoiceVlanAccess", "pcPortVlanId"}

EditedPbxTags == {"device", "processNodeName2", "processNodeName3"}

\* The entry of button b's Key Function: a block of ten entries per button
\* follows the form sections, its header first.
KeyFunctionOf(b) == Len(FormSections) + (b - 1) * Len(ButtonBlock(b)) + 1

\* The MAC address, the Key Functions of buttons 1 and 2, button 1's Voicemail #.
EditedLineEntries ==
  {get_field("device"), KeyFunctionOf(1), KeyFunctionOf(2), KeyFunctionOf(1) + 8}

\* Button 1's Key Function, Extension, Auth ID and Auto Answer.
EditedButtonOneEntries ==
  {KeyFunctionOf(1), KeyFunctionOf(1) + 1, KeyFunctionOf(1) + 3, KeyFunctionOf(1) + 5}

\* ------------------------------------------------------------------------
\* main: the state after initscr and init_fields

Init ==
  /\ fields = init_fields
  /\ total_fields = Len(Registry)
  /\ current = 1
  /\ pc = "main"
  /\ sel = 0
  /\ msg = NoMessage
  /\ out = <<>>
  /\ disk = {}
  /\ last = "none"
  /\ visRun = TRUE

\* A variant of the test that lets a navigation key stop on a section header.
Skipped_HiddenOnly(i) == fields[i].hidden # 0

\* The field a navigation key may not stop on.
Skipped(i) == fields[i].hidden # 0 \/ fields[i].type = FT_HEADER

\* do { current--; } while (current > 0 && skipped)
RECURSIVE StepUp(_)
StepUp(c) ==
  LET n == c - 1 IN IF n > 0 /\ Skipped(n) THEN StepUp(n) ELSE n

\* do { current++; } while (current < total_fields - 1 && skipped)
RECURSIVE StepDown(_)
StepDown(c) ==
  LET n == c + 1 IN IF n < total_fields - 1 /\ Skipped(n) THEN StepDown(n) ELSE n

KeyUp ==
  /\ pc = "main"
  /\ current' = IF current > 1 THEN StepUp(current) ELSE current
  /\ last' = "none"
  /\ visRun' = FALSE
  /\ UNCHANGED <<fields, total_fields, pc, sel, msg, out, disk>>

KeyDown ==
  /\ pc = "main"
  /\ current' = IF current < total_fields - 1 THEN StepDown(current) ELSE current
  /\ last' = "none"
  /\ visRun' = FALSE
  /\ UNCHANGED <<fields, total_fields, pc, sel, msg, out, disk>>

\* Enter on a field with options opens show_popup, on any other show_text_input.
KeyEnter(tags) ==
  /\ pc = "main"
  /\ fields[current].xml \in tags
  /\ IF fields[current].opt_count > 0
       THEN pc' = "popup" /\ sel' = fields[current].opt_sel
       ELSE pc' = "text" /\ sel' = sel
  /\ last' = "none"
  /\ visRun' = FALSE
  /\ UNCHANGED <<fields, total_fields, current, msg, out, disk>>

\* Enter with the cursor on one of the given entries.
KeyEnterAt(entries) == current \in entries /\ KeyEnter({fields[current].xml})

\* 'q' leaves the loop and main returns: the process and its memory are gone,
\* the files it wrote stay.
KeyQuit ==
  /\ pc = "main"
  /\ pc' = "exit"
  /\ fields' = <<>>
  /\ total_fields' = 0
  /\ current' = 0
  /\ last' = "none"
  /\ visRun' = FALSE
  /\ UNCHANGED <<sel, msg, out, disk>>

\* ------------------------------------------------------------------------
\* show_popup: one key of its loop

PopupUp ==
  /\ pc = "popup"
  /\ sel' = IF sel > 0 THEN sel - 1 ELSE sel
  /\ last' = "none"
  /\ visRun' = FALSE
  /\ UNCHANGED <<fields, total_fields, current, pc, msg, out, disk>>

\* A variant of KEY_DOWN in show_popup without the test against opt_count.
PopupDown_NoLimit ==
  /\ pc = "popup"
  /\ sel' = sel + 1
  /\ last' = "none"
  /\ visRun' = FALSE
  /\ UNCHANGED <<fields, total_fields, current, pc, msg, out, disk>>

PopupDown ==
  /\ pc = "popup"
  /\ sel' = IF sel < fields[current].opt_count - 1 THEN sel + 1 ELSE sel
  /\ last' = "none"
  /\ visRun' = FALSE
  /\ UNCHANGED <<fields, total_fields, current, pc, msg, out, disk>>

\* A variant of the commit that stores the index and leaves the text alone.
Select_IndexOnly(f, i, s) == [f EXCEPT ![i].opt_sel = s]

\* f->opt_sel = sel; strcpy(f->value, f->options[sel])
Select(f, i, s) ==
  [f EXCEPT ![i].opt_sel = s, ![i].value = f[i].options[s + 1]]

\* A variant of the commit in show_popup that leaves update_visibility out.
PopupEnter_NoUpdate ==
  /\ pc = "popup"
  /\ fields' = Select(fields, current, sel)
  /\ pc' = "main"
  /\ sel' = 0
  /\ last' = "select"
  /\ visRun' = FALSE
  /\ UNCHANGED <<total_fields, current, msg, out, disk>>

PopupEnter ==
  /\ pc = "popup"
  /\ fields' = update_visibility(Select(fields, current, sel), total_fields)
  /\ pc' = "main"
  /\ sel' = 0
  /\ last' = "select"
  /\ visRun' = TRUE
  /\ UNCHANGED <<total_fields, current, msg, out, disk>>

\* A variant of Escape that stores the highlighted option before it leaves.
PopupEscape_Stores ==
  /\ pc = "popup"
  /\ fields' = Select(fields, current, sel)
  /\ pc' = "main"
  /\ sel' = 0
  /\ last' = "none"
  /\ visRun' = FALSE
  /\ UNCHANGED <<total_fields, current, msg, out, disk>>

PopupEscape ==
  /\ pc = "popup"
  /\ pc' = "main"
  /\ sel' = 0
  /\ last' = "none"
  /\ visRun' = FALSE
  /\ UNCHANGED <<fields, total_fields, current, msg, out, disk>>

\* ------------------------------------------------------------------------
\* show_text_input: the line read by mvwgetnstr

\* The line replaces f->value; the MAC address field is sanitized.
Commit(f, i, line) ==
  [f EXCEPT ![i].value =
     IF strstr(f[i].label, MacLabel) THEN sanitize_mac(line) ELSE line]

TextCommit ==
  /\ pc = "text"
  /\ \E line \in Lines(current) : fields' = Commit(fields, current, line)
  /\ pc' = "main"
  /\ last' = "text"
  /\ visRun' = FALSE
  /\ UNCHANGED <<total_fields, current, sel, msg, out, disk>>

\* show_text_input in two steps, so that the line as typed is a state:
\* mvwgetnstr reads it into f->value, then the auto-sanitize runs on f->value.
ReadLine(lines) ==
  /\ pc = "text"
  /\ \E line \in lines : fields' = [fields EXCEPT ![current].value = line]
  /\ pc' = "typed"
  /\ last' = "none"
  /\ visRun' = FALSE
  /\ UNCHANGED <<total_fields, current, sel, msg, out, disk>>

AutoSanitize ==
  /\ pc = "typed"
  /\ fields' = Commit(fields, current, fields[current].value)
  /\ pc' = "main"
  /\ last' = "text"
  /\ visRun' = FALSE
  /\ UNCHANGED <<total_fields, current, sel, msg, out, disk>>

\* ------------------------------------------------------------------------
\* save_xml

\* A variant of the integrity check that lets a shorter address through.
MacComplete_AtMost(mac) == Len(mac) <= MacLength

\* The integrity check at the head of save_xml: strlen(mac) == 12.
MacComplete(mac) == Len(mac) = MacLength

\* strlen(mac) != 12: the error line, then getch.
SaveMacError ==
  /\ pc = "main"
  /\ ~MacComplete(val("device"))
  /\ msg' = MacErrorMessage
  /\ pc' = "savemsg"
  /\ last' = "mac_error"
  /\ visRun' = FALSE
  /\ UNCHANGED <<fields, total_fields, current, sel, out, disk>>

\* fopen returns NULL: save_xml returns to the loop.
SaveOpenFailed ==
  /\ pc = "main"
  /\ MacComplete(val("device"))
  /\ last' = "open_failed"
  /\ visRun' = FALSE
  /\ UNCHANGED <<fields, total_fields, current, pc, sel, msg, out, disk>>

\* The file is written and closed, the success line printed, then getch.
SaveOk ==
  /\ pc = "main"
  /\ MacComplete(val("device"))
  /\ out' = Document
  /\ disk' = disk \cup {FileName(val("device"))}
  /\ msg' = SuccessMessage(FileName(val("device")))
  /\ pc' = "savemsg"
  /\ last' = "saved"
  /\ visRun' = FALSE
  /\ UNCHANGED <<fields, total_fields, current, sel>>

\* A variant of the return from save_xml that erases the MAC address.
SaveReturn_ClearsMac ==
  /\ pc = "savemsg"
  /\ pc' = "main"
  /\ fields' = [fields EXCEPT ![get_field("device")].value = <<>>]
  /\ msg' = NoMessage
  /\ out' = <<>>
  /\ last' = "none"
  /\ visRun' = FALSE
  /\ UNCHANGED <<total_fields, current, sel, disk>>

\* The key that ends getch in save_xml; the loop erases the screen.
SaveReturn ==
  /\ pc = "savemsg"
  /\ pc' = "main"
  /\ msg' = NoMessage
  /\ out' = <<>>
  /\ last' = "none"
  /\ visRun' = FALSE
  /\ UNCHANGED <<fields, total_fields, current, sel, disk>>

\* ------------------------------------------------------------------------
\* Specifications

Handlers ==
  \/ KeyUp
  \/ KeyDown
  \/ KeyQuit
  \/ PopupUp
  \/ PopupDown
  \/ PopupEnter
  \/ PopupEscape
  \/ TextCommit
  \/ SaveMacError
  \/ SaveOpenFailed
  \/ SaveOk
  \/ SaveReturn

Next == KeyEnter(EditedTags) \/ Handlers

Spec == Init /\ [][Next]_vars

\* Sessions in which the operator only moves the cursor and picks Key Functions.
NextButtons ==
  \/ KeyEnter(EditedButtonTags)
  \/ KeyUp
  \/ KeyDown
  \/ KeyQuit
  \/ PopupUp
  \/ PopupDown
  \/ PopupEnter
  \/ PopupEscape

SpecButtons == Init /\ [][NextButtons]_vars

\* Sessions in which the operator only moves the cursor and sets the three
\* dropdowns that have a single dependent field.
NextTriggers ==
  \/ KeyEnter(EditedTriggerTags)
  \/ KeyUp
  \/ KeyDown
  \/ KeyQuit
  \/ PopupUp
  \/ PopupDown
  \/ PopupEnter
  \/ PopupEscape

SpecTriggers == Init /\ [][NextTriggers]_vars

\* Sessions in which the operator only moves the cursor and picks a time
\* zone, the dropdown with the most options.
NextPicker ==
  \/ KeyEnter(EditedPickerTags)
  \/ KeyUp
  \/ KeyDown
  \/ KeyQuit
  \/ PopupUp
  \/ PopupDown
  \/ PopupEnter
  \/ PopupEscape

SpecPicker == Init /\ [][NextPicker]_vars

\* Sessions in which the operator sets the MAC address, the Key Functions of
\* the first two buttons and the first button's voicemail number, and saves.
NextLines == KeyEnterAt(EditedLineEntries) \/ Handlers

SpecLines == Init /\ [][NextLines]_vars

\* Sessions in which the operator sets the MAC address and the NAT fields,
\* and saves.
NextNat == KeyEnter(EditedNatTags) \/ Handlers

SpecNat == Init /\ [][NextNat]_vars

\* Sessions in which the operator sets the MAC address and the secondary and
\* tertiary PBX, and saves.
NextPbx ==
  \/ KeyEnter(EditedPbxTags)
  \/ KeyUp
  \/ KeyDown
  \/ KeyQuit
  \/ TextCommit
  \/ SaveMacError
  \/ SaveOpenFailed
  \/ SaveOk
  \/ SaveReturn

SpecPbx == Init /\ [][NextPbx]_vars

\* Sessions in which the operator only types MAC addresses.
NextMac ==
  \/ KeyEnter(EditedMacTags)
  \/ ReadLine(MacInputs)
  \/ AutoSanitize
  \/ KeyQuit

SpecMac == Init /\ [][NextMac]_vars

\* Sessions in which the operator sets the MAC address and the RTP ports,
\* and saves.
NextRtp ==
  \/ KeyEnter(EditedRtpTags)
  \/ KeyUp
  \/ KeyDown
  \/ KeyQuit
  \/ TextCommit
  \/ SaveMacError
  \/ SaveOpenFailed
  \/ SaveOk
  \/ SaveReturn

SpecRtp == Init /\ [][NextRtp]_vars

\* Sessions in which the operator sets the MAC address and the PC port VLAN
\* fields, and saves.
NextPcVlan == KeyEnter(EditedPcVlanTags) \/ Handlers

SpecPcVlan == Init /\ [][NextPcVlan]_vars

\* Sessions in which the operator only moves the cursor and fills in button 1.
NextButtonOne ==
  \/ KeyEnterAt(EditedButtonOneEntries)
  \/ KeyUp
  \/ KeyDown
  \/ KeyQuit
  \/ PopupUp
  \/ PopupDown
  \/ PopupEnter
  \/ PopupEscape
  \/ TextCommit

SpecButtonOne == Init /\ [][NextButtonOne]_vars

\* ------------------------------------------------------------------------
\* Properties

\* The process is alive: fields[] exists.
Running == pc # "exit"

\* v is exactly twelve hexadecimal characters.
IsHex12(v) == Len(v) = 12 /\ \A k \in 1..Len(v) : isxdigit(v[k])

\* The step is save_xml run on an 's' for which fopen does not fail.
SaveStep == pc = "main" /\ last' \in {"saved", "mac_error"}

\* C1: a save (its file can be opened) writes SEP<MAC>.cnf.xml exactly when
\* the stored MAC address is twelve hexadecimal characters; otherwise it ends
\* with the validation error and neither creates nor writes a file.  The test
\* looks at no other field, so an empty Primary PBX IP does not block it.
C1_SaveIffMacIsTwelveHex ==
  [][ SaveStep =>
        IF IsHex12(val("device"))
          THEN /\ last' = "saved"
               /\ disk' = disk \cup {FileName(val("device"))}
               /\ out' # <<>>
               /\ msg' = SuccessMessage(FileName(val("device")))
          ELSE /\ last' = "mac_error"
               /\ disk' = disk
               /\ out' = <<>>
               /\ msg' = MacErrorMessage ]_vars

\* A file was just written although the Primary PBX IP is empty.
C1_SavedWithEmptyPrimary ==
  /\ last = "saved"
  /\ val("processNodeName1") = <<>>
  /\ IsHex12(val("device"))
  /\ FileName(val("device")) \in disk

\* The entries that open a button block.
KeyFunctions ==
  {i \in 0..(total_fields - 1) : strstr(fields[i].label, KeyFunctionLabel)}

\* The element at position k of the written document carries tag t.
IsElem(k, t) == out[k].kind = "elem" /\ out[k].tag = t

\* C2: a successful save emits no element with empty content; an optional
\* leaf whose backing field is empty is left out of the document.
C2_NoEmptyElement ==
  last = "saved" =>
    \A k \in 1..Len(out) : out[k].kind = "elem" => Len(out[k].txt) > 0

\* C3: while the main loop awaits a key, the cursor is on a field that is
\* neither hidden nor a section header, also after Down from the last
\* visible field with the trailing fields of the registry hidden.
C3_CursorOnVisibleField == pc = "main" => ~Skipped(current)

\* The positions of the tags that open a line element.
LineOpens == {k \in 1..Len(out) : out[k].kind = "open" /\ out[k].tag = "line"}

\* The Key Function entries that are not Disabled; each writes one line element.
EnabledKeys == {i \in KeyFunctions : fields[i].value # "Disabled"}

\* The position where the line element of Key Function entry i opens: the
\* line elements follow the order of the buttons.
LineOpenOf(i) ==
  CHOOSE k \in LineOpens :
    Cardinality({m \in LineOpens : m < k}) = Cardinality({j \in EnabledKeys : j < i})

\* The tags written inside the line element of Key Function entry i.
SubTags(i) ==
  LET open == LineOpenOf(i)
      close == CHOOSE c \in (open + 1)..Len(out) :
                 /\ out[c].kind = "close" /\ out[c].tag = "line"
                 /\ \A m \in (open + 1)..(c - 1) : out[m].kind = "elem"
  IN {out[m].tag : m \in (open + 1)..(close - 1)}

\* C4: in a saved document the line element of a button holds authName,
\* authPassword, autoAnswerEnabled, callForwardURI, callPickupGroupURI and
\* voiceMailPilot only when the button is a Line, and then each exactly when
\* the button's own Auth ID, SIP Password, Auto Answer, Forward All, Pickup
\* Group or Voicemail field is non-empty (Auto Answer: Enabled).
C4_LineOnlySubElements ==
  last = "saved" =>
    /\ Cardinality(LineOpens) = Cardinality(EnabledKeys)
    /\ \A i \in EnabledKeys :
         LET line == fields[i].value = "Line"
             tags == SubTags(i)
         IN /\ "authName" \in tags <=> (line /\ NonEmpty(fields[i + 3].value))
            /\ "authPassword" \in tags <=> (line /\ NonEmpty(fields[i + 4].value))
            /\ "autoAnswerEnabled" \in tags <=> (line /\ fields[i + 5].value = "Enabled")
            /\ "callForwardURI" \in tags <=> (line /\ NonEmpty(fields[i + 6].value))
            /\ "callPickupGroupURI" \in tags <=> (line /\ NonEmpty(fields[i + 7].value))
            /\ "voiceMailPilot" \in tags <=> (line /\ NonEmpty(fields[i + 8].value))

\* The positions between the tags that open and close the date/time block.
DateTimeBlock ==
  {k \in 1..Len(out) :
     /\ \E o \in 1..(k - 1) : out[o].kind = "open" /\ out[o].tag = "dateTimeSetting"
     /\ \E c \in (k + 1)..Len(out) : out[c].kind = "close" /\ out[c].tag = "dateTimeSetting"}

\* C5: in a saved document the date/time block holds timeZone with the
\* encoded value of the selected zone, and holds the NTP server element with
\* the entered value exactly when the NTP Server field is not empty.
C5_DateTimeBlock ==
  last = "saved" =>
    /\ \E k \in DateTimeBlock : IsElem(k, "timeZone") /\ out[k].txt = opt_val("timeZone")
    /\ (\E k \in DateTimeBlock :
          /\ IsElem(k, "ntpServerAddr") \/ IsElem(k, "ntpServer")
          /\ out[k].txt = val("ntpServer"))
       <=> NonEmpty(val("ntpServer"))

\* C6: after a save whose fopen failed the operator is shown a failure, not
\* nothing and not the success line, and the session goes on.
C6_OpenFailureSurfaced ==
  last = "open_failed" =>
    /\ msg # NoMessage
    /\ msg.text # SuccessMessage(<<>>).text
    /\ pc \in {"main", "savemsg"}

\* C7 as written: update_visibility has run in the handler of every
\* committed dropdown selection and of every text commit.
C7_RecomputedAfterEveryChange == last \in {"select", "text"} => visRun

\* C7 as it holds: update_visibility runs in the handler of every committed
\* dropdown selection and not in that of a text commit; the hidden flags are
\* all the same those a recomputation would give, whenever the process runs.
C7_RecomputedAfterSelection ==
  /\ last = "select" => visRun
  /\ last = "text" => ~visRun
  /\ Running => fields = update_visibility(fields, total_fields)

\* A text commit has just stored a non-empty line.
C7_AfterTextCommit == last = "text" /\ NonEmpty(fields[current].value)

\* The step is save_xml, from the 's' to the key that ends its getch.
SaveAttemptStep ==
  \/ pc = "main" /\ last' \in {"saved", "mac_error", "open_failed"}
  \/ pc = "savemsg"

\* C8: a save attempt - written, refused for its MAC address or failed at
\* fopen - changes no field's value, selection or hidden flag and not the
\* field count, and it ends in the main loop awaiting the next key.
C8_SaveLeavesFieldsAlone ==
  [][ SaveAttemptStep =>
        /\ fields' = fields
        /\ total_fields' = total_fields
        /\ current' = current
        /\ pc' \in {"main", "savemsg"}
        /\ pc = "savemsg" => pc' = "main" ]_vars

\* The main loop awaits a key after a save whose fopen failed.
C8_AfterFailedOpen == last = "open_failed" /\ pc = "main" /\ MacComplete(val("device"))

\* The hidden flags of the eight sub-fields of the button whose Key Function
\* is entry i are those its Key Function asks for.
ButtonFlags(i) ==
  /\ \A k \in (i + 1)..(i + 2) :
       fields[k].hidden # 0 <=> fields[i].value = "Disabled"
  /\ \A k \in (i + 3)..(i + 8) :
       fields[k].hidden # 0 <=> fields[i].value # "Line"

\* The step changes the Key Function at entry i.
KeyFunctionChanged(i) == fields'[i].opt_sel # fields[i].opt_sel

\* C9: for each of the four buttons Extension and Label are hidden exactly
\* when the Key Function is Disabled, and Auth ID, SIP Password, Auto Answer,
\* Forward All, Pickup Group and Voicemail exactly when it is not Line; a
\* change of one button's Key Function changes no hidden flag outside that
\* button's eight sub-fields.
C9_ButtonVisibility ==
  /\ [](Running => Cardinality(KeyFunctions) = NumButtons
                   /\ \A i \in KeyFunctions : ButtonFlags(i))
  /\ [][ pc = "popup" /\ pc' = "main" =>
           \A i \in KeyFunctions :
             KeyFunctionChanged(i) =>
               \A k \in 0..(total_fields - 1) :
                 (k < i + 1 \/ k > i + 8) => fields'[k].hidden = fields[k].hidden ]_vars

\* Button 1 is Disabled, button 2 a SpeedDial, button 3 a Line, button 4 a BLF.
C9_FourKinds ==
  /\ Running
  /\ \E a, b, c, d \in KeyFunctions :
       /\ a < b /\ b < c /\ c < d
       /\ fields[a].value = "Disabled" /\ fields[b].value = "SpeedDial"
       /\ fields[c].value = "Line" /\ fields[d].value = "BLF"
       /\ fields[a + 1].hidden = 1 /\ fields[b + 1].hidden = 0 /\ fields[b + 3].hidden = 1
       /\ fields[c + 3].hidden = 0 /\ fields[d + 8].hidden = 1

\* The dependent entry with tag t is hidden exactly when the entry before
\* it, which carries tag trigger, is not at the option named enabling.
DependentFlag(t, trigger, enabling) ==
  LET d == get_field(t) IN
    /\ d # NULL /\ d > 0
    /\ fields[d - 1].xml = trigger
    /\ fields[d].hidden # 0 <=> fields[d - 1].value # enabling

\* C10: Community String is hidden exactly when SNMP Enable is not Enabled,
\* NAT Address exactly when NAT Enabled is not Yes, PC VLAN ID exactly when
\* PC Port VLAN Mode is not Tag with Specific VLAN; each trigger is the entry
\* right before its dependent.
C10_SingleDependents ==
  Running =>
    /\ DependentFlag("snmpCommunity", "snmpEnabled", "Enabled")
    /\ DependentFlag("natAddress", "natEnabled", "Yes")
    /\ DependentFlag("pcPortVlanId", "pcVoiceVlanAccess", "Tag with Specific VLAN")

\* SNMP is Enabled and NAT off, the PC port tagged with the voice VLAN.
C10_MixedTriggers ==
  /\ Running
  /\ val("snmpEnabled") = "Enabled" /\ fields[get_field("snmpCommunity")].hidden = 0
  /\ val("natEnabled") = "No" /\ fields[get_field("natAddress")].hidden = 1
  /\ val("pcVoiceVlanAccess") = "Tag with Voice VLAN"
  /\ fields[get_field("pcPortVlanId")].hidden = 1

\* The entries that have options.
Dropdowns == {i \in 0..(total_fields - 1) : fields[i].opt_count > 0}

\* C11: the selected index of every dropdown is at least 0 and below the
\* number of its options, from construction on, and so is the candidate the
\* option picker shows, whatever keys it has been given.
C11_SelectionInRange ==
  Running =>
    /\ \A i \in Dropdowns :
         /\ fields[i].opt_count = Len(fields[i].options)
         /\ fields[i].opt_sel >= 0 /\ fields[i].opt_sel < fields[i].opt_count
    /\ pc = "popup" => sel >= 0 /\ sel < fields[current].opt_count

\* The last time zone of the list has just been committed.
C11_LastZoneSelected ==
  /\ last = "select"
  /\ fields[current].xml = "timeZone"
  /\ fields[current].opt_sel = fields[current].opt_count - 1

\* The positions between the tags that open and close the sipLines block.
SipLinesBlock ==
  {k \in 1..Len(out) :
     /\ \E o \in 1..(k - 1) : out[o].kind = "open" /\ out[o].tag = "sipLines"
     /\ \E c \in (k + 1)..Len(out) : out[c].kind = "close" /\ out[c].tag = "sipLines"}

\* C12: in a saved document the sipLines block holds one line element for
\* each button that is not Disabled and none for a Disabled one, in the order
\* of the buttons; its featureID is 9 for a Line and 21 for a SpeedDial or BLF.
C12_OneLinePerEnabledButton ==
  last = "saved" =>
    /\ LineOpens \subseteq SipLinesBlock
    /\ Cardinality(LineOpens) = Cardinality(EnabledKeys)
    /\ \A i \in EnabledKeys :
         /\ IsElem(LineOpenOf(i) + 1, "featureID")
         /\ out[LineOpenOf(i) + 1].txt = (IF fields[i].value = "Line" THEN "9" ELSE "21")

\* A document was written with button 1 a BLF and button 2 a Line.
C12_BlfThenLine ==
  /\ last = "saved"
  /\ fields[KeyFunctionOf(1)].value = "BLF"
  /\ fields[KeyFunctionOf(2)].value = "Line"
  /\ Cardinality(LineOpens) = 2

\* The positions between the tags that open and close the container t.
Inside(t) ==
  {k \in 1..Len(out) :
     /\ \E o \in 1..(k - 1) : out[o].kind = "open" /\ out[o].tag = t
     /\ \E c \in (k + 1)..Len(out) : out[c].kind = "close" /\ out[c].tag = t}

\* The positions of the elements with tag t in the written document.
ElemsAt(t) == {k \in 1..Len(out) : IsElem(k, t)}

\* C13: in a saved document the SIP stack block holds natEnabled = true and
\* right after it natAddress with the NAT Address field's value exactly when
\* NAT Enabled is Yes; with NAT Enabled at No the document holds neither,
\* whatever the NAT Address field still holds.
C13_NatOnlyWhenEnabled ==
  last = "saved" =>
    IF val("natEnabled") = "Yes"
      THEN \E k \in Inside("sipStack") :
             /\ ElemsAt("natEnabled") = {k} /\ out[k].txt = "true"
             /\ ElemsAt("natAddress") = {k + 1} /\ out[k + 1].txt = val("natAddress")
      ELSE ElemsAt("natEnabled") = {} /\ ElemsAt("natAddress") = {}

\* A document was written with NAT Enabled back at No and an address still stored.
C13_SavedWithStaleAddress ==
  /\ last = "saved"
  /\ val("natEnabled") = "No"
  /\ NonEmpty(val("natAddress"))
  /\ fields[get_field("natAddress")].hidden = 1

\* The positions of the tags that open a member of the call-manager group.
MemberOpens == {k \in 1..Len(out) : out[k].kind = "open" /\ out[k].tag = "member"}

\* The PBX field behind the member of each priority.
PbxTag(priority) ==
  CASE priority = 0 -> "processNodeName1"
    [] priority = 1 -> "processNodeName2"
    [] priority = 2 -> "processNodeName3"

\* The priorities a saved document has to hold.
MemberPriorities == {0} \cup {p \in {1, 2} : NonEmpty(val(PbxTag(p)))}

\* C14: in a saved document the call-manager group holds the member of
\* priority 0 always, that of priority 1 exactly when Secondary PBX is not
\* empty and that of priority 2 exactly when Tertiary PBX is not empty, in
\* this order and each with its own field's address; the priorities are not
\* renumbered when Secondary PBX is empty and Tertiary PBX is set.
C14_MembersByPriority ==
  last = "saved" =>
    /\ MemberOpens \subseteq Inside("callManagerGroup")
    /\ {out[k].attr : k \in MemberOpens} = MemberPriorities
    /\ Cardinality(MemberOpens) = Cardinality(MemberPriorities)
    /\ \A k, m \in MemberOpens : k < m => out[k].attr < out[m].attr
    /\ \A k \in MemberOpens :
         \E n \in (k + 1)..Len(out) :
           /\ IsElem(n, "processNodeName") /\ out[n].txt = val(PbxTag(out[k].attr))
           /\ \A j \in (k + 1)..n : ~(out[j].kind = "close" /\ out[j].tag = "member")

\* A document was written with Secondary PBX empty and Tertiary PBX set.
C14_SavedWithoutSecondary ==
  /\ last = "saved"
  /\ ~NonEmpty(val("processNodeName2"))
  /\ NonEmpty(val("processNodeName3"))
  /\ {out[k].attr : k \in MemberOpens} = {0, 2}

\* The hexadecimal digits and the capital of each.
HexChars ==
  {"0", "1", "2", "3", "4", "5", "6", "7", "8", "9",
   "a", "b", "c", "d", "e", "f", "A", "B", "C", "D", "E", "F"}

Upper(c) ==
  CASE c = "a" -> "A" [] c = "b" -> "B" [] c = "c" -> "C"
    [] c = "d" -> "D" [] c = "e" -> "E" [] c = "f" -> "F"
    [] OTHER -> c

\* The hexadecimal digits of s in their order, as capitals, at most the
\* first twelve of them.
HexPrefix(s) ==
  LET hex == SelectSeq(s, LAMBDA c : c \in HexChars)
      up == [k \in 1..Len(hex) |-> Upper(hex[k])]
  IN IF Len(up) > 12 THEN SubSeq(up, 1, 12) ELSE up

\* The line of the example and what it is to become.
ExampleMac == <<"0","0",":","0","7",":","a","1","-","B","2",".","c","3","d","4">>
ExampleClean == <<"0","0","0","7","A","1","B","2","C","3","D","4">>

\* C15: sanitize_mac turns the typed line into its hexadecimal digits, in
\* their order, as capitals, cut to the first twelve and never padded; the
\* stored MAC address therefore holds only 0-9 and A-F and at most twelve
\* characters, and 00:07:a1-B2.c3d4 is stored as 0007A1B2C3D4.
C15_SanitizeKeepsHexPrefix ==
  /\ [][ pc = "typed" /\ pc' = "main" =>
           /\ fields'[current].value = HexPrefix(fields[current].value)
           /\ fields[current].value = ExampleMac => fields'[current].value = ExampleClean ]_vars
  /\ [](pc = "main" =>
          /\ Len(val("device")) <= 12
          /\ \A k \in 1..Len(val("device")) :
               val("device")[k] \in HexChars /\ Upper(val("device")[k]) = val("device")[k])

\* The line of the example has just been committed.
C15_ExampleStored == last = "text" /\ pc = "main" /\ val("device") = ExampleClean

\* C16: sanitizing a sanitized line changes nothing, for the line as typed
\* and for the address as stored.
C16_SanitizeIdempotent ==
  pc \in {"typed", "main"} =>
    LET s == val("device") IN sanitize_mac(sanitize_mac(s)) = sanitize_mac(s)

\* A line was typed that holds other characters and more than twelve digits.
C16_LongMixedLine ==
  /\ pc = "typed"
  /\ Len(SelectSeq(val("device"), LAMBDA c : c \in HexChars)) > 12
  /\ \E k \in 1..Len(val("device")) : val("device")[k] \notin HexChars
  /\ \E k \in 1..Len(val("device")) : val("device")[k] \in {"a", "b", "c", "d", "e", "f"}

\* Entry k is after the step what it was before, its hidden flag apart.
SameButHidden(k) == [fields'[k] EXCEPT !.hidden = fields[k].hidden] = fields[k]

\* C17: the commit of a dropdown selection, with the recomputation of the
\* visibility that follows it, changes the value and the selected index of
\* that one field and otherwise hidden flags only; what was entered into a
\* sub-field is still there when its trigger has been switched away, and back.
C17_SelectionKeepsStoredData ==
  [][ pc = "popup" /\ pc' = "main" =>
        /\ total_fields' = total_fields
        /\ \A k \in 0..(total_fields - 1) : k # current => SameButHidden(k)
        /\ [fields'[current] EXCEPT !.hidden = fields[current].hidden,
                                    !.value = fields[current].value,
                                    !.opt_sel = fields[current].opt_sel] = fields[current] ]_vars

\* Button 1 has just been set to Disabled; its hidden Extension, Auth ID and
\* Auto Answer hold what was entered while it was a Line.
C17_DisabledKeepsEntries ==
  /\ last = "select"
  /\ current = KeyFunctionOf(1)
  /\ fields[current].value = "Disabled"
  /\ fields[current + 1].hidden = 1 /\ NonEmpty(fields[current + 1].value)
  /\ fields[current + 3].hidden = 1 /\ NonEmpty(fields[current + 3].value)
  /\ fields[current + 5].hidden = 1 /\ fields[current + 5].value = "Enabled"

\* C18: a saved document holds pcPortVlanId, with the value of PC VLAN ID,
\* whenever that value is not empty, also when the field is hidden because
\* the PC Port VLAN Mode was changed after the value was entered.
C18_HiddenValueIsWritten ==
  last = "saved" =>
    IF NonEmpty(val("pcPortVlanId"))
      THEN \E k \in Inside("ethernetConfig") :
             ElemsAt("pcPortVlanId") = {k} /\ out[k].txt = val("pcPortVlanId")
      ELSE ElemsAt("pcPortVlanId") = {}

\* A document with pcPortVlanId was written while PC VLAN ID was hidden.
C18_SavedWhileHidden ==
  /\ last = "saved"
  /\ fields[get_field("pcPortVlanId")].hidden = 1
  /\ val("pcVoiceVlanAccess") # "Tag with Specific VLAN"
  /\ NonEmpty(val("pcPortVlanId"))
  /\ ElemsAt("pcPortVlanId") # {}

\* The positions of the elements inside the line element of Key Function
\* entry i, from its opening tag to the first closing one after it.
LineBody(i) ==
  LET open == LineOpenOf(i)
      close == CHOOSE c \in (open + 1)..Len(out) :
                 /\ out[c].kind = "close" /\ out[c].tag = "line"
                 /\ \A m \in (open + 1)..(c - 1) : out[m].kind = "elem"
  IN (open + 1)..(close - 1)

\* The entry, counted from the Key Function, behind a sub-element that
\* carries a field's text.
SubField(t) ==
  CASE t = "name" -> 1
    [] t = "displayName" -> 2
    [] t = "authName" -> 3
    [] t = "authPassword" -> 4
    [] t = "callForwardURI" -> 6
    [] t = "callPickupGroupURI" -> 7
    [] t = "voiceMailPilot" -> 8

\* C19: in a saved document every sub-element of a button's line element
\* that carries a field's text carries that of the button's own field; the
\* voiceMailPilot of a Line button is there exactly when the button's own
\* Voicemail # is not empty, for the first button and for the others alike.
C19_OwnFieldValues ==
  last = "saved" =>
    \A i \in EnabledKeys :
      /\ \A k \in LineBody(i) :
           out[k].tag \in {"name", "displayName", "authName", "authPassword",
                           "callForwardURI", "callPickupGroupURI", "voiceMailPilot"}
             => out[k].txt = fields[i + SubField(out[k].tag)].value
      /\ fields[i].value = "Line" =>
           ((\E k \in LineBody(i) : out[k].tag = "voiceMailPilot")
              <=> NonEmpty(fields[i + 8].value))

\* The number of the button whose Key Function is entry i.
ButtonOf(i) == CHOOSE b \in 1..NumButtons : KeyFunctionOf(b) = i

\* C20: in a saved document the button attribute of a line element is the
\* number, 1 to 4, of the button it was written for, so that the line
\* elements of two buttons carry different numbers.
C20_ButtonNumbers ==
  last = "saved" =>
    /\ \A i \in EnabledKeys : out[LineOpenOf(i)].attr = ButtonOf(i)
    /\ \A k, m \in LineOpens : k # m => out[k].attr # out[m].attr

\* C21: the value a dropdown shows is the label of its selected option, in
\* every state; the value and the selected index of a dropdown change only
\* in the option picker opened on it, never in the text entry.
C21_ValueIsSelectedOption ==
  /\ [](Running =>
          \A i \in Dropdowns : fields[i].value = fields[i].options[fields[i].opt_sel + 1])
  /\ [][ pc' # "exit" =>
           \A i \in Dropdowns :
             (fields'[i].value # fields[i].value \/ fields'[i].opt_sel # fields[i].opt_sel)
               => pc = "popup" /\ i = current ]_vars

\* Auto Answer has just been set to Enabled in the option picker.
C21_AutoAnswerEnabled ==
  /\ last = "select"
  /\ fields[current].xml = "autoAnswerEnabled"
  /\ fields[current].opt_sel = 1
  /\ fields[current].value = "Enabled"

\* The step opens the option picker, moves its highlight or leaves it
\* without a commit.
PickerStepWithoutCommit ==
  \/ pc = "main" /\ pc' = "popup"
  \/ pc = "popup" /\ pc' = "popup"
  \/ pc = "popup" /\ pc' = "main" /\ last' # "select"

\* C22: the option picker commits on Enter only.  Opening it, moving its
\* highlight with Up and Down and leaving it with Escape change no field, so
\* that after Escape every value, selected index and hidden flag is what it
\* was before the picker was opened.
C22_PickerCommitsOnEnterOnly ==
  [][ PickerStepWithoutCommit =>
        /\ fields' = fields
        /\ total_fields' = total_fields
        /\ current' = current ]_vars

\* The highlight of the picker has been moved off the selected option.
C22_HighlightMoved ==
  /\ pc = "popup"
  /\ sel # fields[current].opt_sel
  /\ fields[current].value = fields[current].options[fields[current].opt_sel + 1]

\* C23: while the process runs the cursor is an index from 1 to the field
\* count less one and never that of a section header, so that the help text
\* and Enter read an entry of the registry and Enter opens no header.
C23_CursorInRegistry ==
  Running =>
    /\ current >= 1 /\ current <= total_fields - 1
    /\ fields[current].type # FT_HEADER

\* The cursor is on the Key Function of the last button, having passed the
\* hidden sub-fields of the buttons before it and the header of each.
C23_CursorOnLastButton ==
  /\ pc = "main"
  /\ current = KeyFunctionOf(NumButtons)
  /\ \A b \in 1..(NumButtons - 1) : fields[KeyFunctionOf(b)].value = "Disabled"
  /\ fields[current - 1].type = FT_HEADER

\* C24: a saved document holds startMediaPort and, right after it,
\* stopMediaPort, each with its field's value, exactly when RTP Min Port is
\* not empty; an RTP Max Port entered without a Min Port is not written.
C24_RtpPairKeyedOnMin ==
  last = "saved" =>
    IF Len(val("startMediaPort")) > 0
      THEN \E k \in Inside("vendorConfig") :
             /\ ElemsAt("startMediaPort") = {k} /\ out[k].txt = val("startMediaPort")
             /\ ElemsAt("stopMediaPort") = {k + 1} /\ out[k + 1].txt = val("stopMediaPort")
      ELSE ElemsAt("startMediaPort") = {} /\ ElemsAt("stopMediaPort") = {}

\* A document was written with an RTP Max Port and no RTP Min Port.
C24_SavedWithMaxOnly ==
  /\ last = "saved"
  /\ Len(val("startMediaPort")) = 0
  /\ Len(val("stopMediaPort")) > 0
  /\ ElemsAt("stopMediaPort") = {}

====
